---- MODULE Spec2Model ----
(***************************************************************************)
(* Model of the clustering and layout engine of ScrabbViz (App.tsx):       *)
(* UnionFind, buildClusters, sortCluster, the cluster ranking,             *)
(* analyzeClusterChains, buildVerticalClusters, buildVerticalConnectionMap,*)
(* clusterOffsets and the connectors of svgContent.                        *)
(*                                                                         *)
(* Item ids are strings, prices are integers, a JavaScript Map is a        *)
(* sequence of [key, val] records in insertion order (or a function when   *)
(* its iteration order is never used), a JavaScript Set that is iterated   *)
(* is a duplicate-free sequence in insertion order.  Cluster indices are   *)
(* 0-based as in the code; sequences are 1-based, so cluster idx is        *)
(* sortedHorizontalClusters[idx + 1].                                      *)
(***************************************************************************)
EXTENDS Integers, Sequences, FiniteSets, TLC

VARIABLES
    products,                  \* productMap: id -> price, for the ids of groceryData
    horizontalPairs,           \* input: sequence of <<a, b>>
    verticalPairs,             \* input: sequence of <<a, b>>
    pc,                        \* position of the render: which memo runs next
    horizontalClusters,        \* buildClusters(horizontalPairs)
    sorted,                    \* horizontalClusters.map(sortCluster), before ranking
    sortedHorizontalClusters,  \* the ranked cluster list
    verticalClusters,          \* buildVerticalClusters()
    verticalConnectionMap,     \* buildVerticalConnectionMap(): id -> list of linked ids
    renderStructure,           \* per ranked cluster: label, items and hue
    clusterOffsets,            \* the offset table: cluster index -> pixels
    connectors,                \* svgContent: cluster index -> its connector list
    cards,                     \* svgContent: cluster index -> the cardX of its cards
    ufParent,                  \* UnionFind.parent of a UnionFind object used on its own
    ufEdges,                   \* history: the <<x, y>> of the union calls made on it
    ufCalls,                   \* history: the number of calls made on it
    zoomLevel,                 \* useState(1), a rational number [num, den]
    panOffset,                 \* useState({x: 0, y: 0}), as <<x, y>>
    isDragging,                \* useState(false)
    dragStart,                 \* useState({x: 0, y: 0}), as <<x, y>>
    lastHandler,               \* history: the handler that ran last
    uiEvents                   \* history: the number of handlers run

renderVars == <<products, horizontalPairs, verticalPairs, pc, horizontalClusters,
                sorted, sortedHorizontalClusters, verticalClusters,
                verticalConnectionMap, renderStructure, clusterOffsets, connectors,
                cards>>
ufVars == <<ufParent, ufEdges, ufCalls>>
uiVars == <<zoomLevel, panOffset, isDragging, dragStart, lastHandler, uiEvents>>
vars == <<renderVars, ufVars, uiVars>>

(***************************************************************************)
(* Bounds of the model.                                                    *)
(***************************************************************************)
MaxPrice == 2      \* prices are drawn from 1..MaxPrice
MaxH == 3          \* at most MaxH horizontal pairs
MaxHV == 3         \* at most MaxHV horizontal pairs when vertical pairs are present
MaxV == 2          \* at most MaxV vertical pairs
MaxHL == 3         \* at most MaxHL horizontal pairs in the layout runs
MaxVL == 3         \* at most MaxVL vertical pairs in the layout runs
MaxHU == 3         \* at most MaxHU horizontal pairs in the merge-rule runs
MaxVU == 2         \* at most MaxVU vertical pairs in the merge-rule runs
MaxUfCalls == 4    \* at most MaxUfCalls calls on the UnionFind object
MaxUiEvents == 4   \* at most MaxUiEvents pan and zoom handlers run
MaxClustersH == 16 \* at most MaxClustersH clusters in the colouring runs

Ids == {"a", "b", "c"}
IdsL == Ids \cup {"d"}     \* the items of the layout runs
Prices == 1..MaxPrice
Pairs == Ids \X Ids

\* String.prototype.localeCompare on the ids of the model: negative, zero or
\* positive as x collates before, with or after y.
IdRank == [id \in IdsL |-> CASE id = "a" -> 1 [] id = "b" -> 2 [] id = "c" -> 3 [] id = "d" -> 4]
localeCompare(x, y) == IdRank[x] - IdRank[y]

\* String(idx) for a cluster index.
Digits == <<"0", "1", "2", "3", "4", "5", "6", "7", "8", "9">>
RECURSIVE String(_)
String(idx) ==
    IF idx < 10 THEN Digits[idx + 1]
    ELSE String(idx \div 10) \o Digits[(idx % 10) + 1]

Range(s) == {s[i] : i \in 1..Len(s)}
SeqsUpTo(S, n) == UNION {[1..k -> S] : k \in 0..n}
EmptyMap == [k \in {} |-> k]

(***************************************************************************)
(* Array.prototype.sort with a comparator that orders by a numeric key,    *)
(* ascending: the sort is stable, so elements with equal keys keep their   *)
(* relative order.  keys[i] is the key of s[i].                            *)
(***************************************************************************)
StableSort(s, keys) ==
    LET n == Len(s)
        Before(q, p) == keys[q] < keys[p] \/ (keys[q] = keys[p] /\ q < p)
        At(j) == CHOOSE p \in 1..n : Cardinality({q \in 1..n : Before(q, p)}) = j - 1
    IN  [j \in 1..n |-> s[At(j)]]

(***************************************************************************)
(* class UnionFind.  find returns the representative and the parent map    *)
(* after lazy registration and path compression.                           *)
(***************************************************************************)
\* find with a registration that overwrites the key's parent
findOverwriting(parent, x) ==
    LET p0 == (x :> x) @@ parent
    IN  [parent |-> p0, root |-> p0[x]]

RECURSIVE find(_, _)
find(parent, x) ==
    LET p0 == IF x \in DOMAIN parent THEN parent ELSE parent @@ (x :> x)
    IN  IF p0[x] # x
        THEN LET r  == find(p0, p0[x])
                 p1 == [r.parent EXCEPT ![x] = r.root]
             IN  [parent |-> p1, root |-> p1[x]]
        ELSE [parent |-> p0, root |-> p0[x]]

unionNoReroot(parent, x, y) ==
    LET fx == find(parent, x)
        fy == find(fx.parent, y)
    IN  IF fx.root # fy.root
        THEN [fy.parent EXCEPT ![x] = fy.root]
        ELSE fy.parent

union(parent, x, y) ==
    LET fx == find(parent, x)
        fy == find(fx.parent, y)
    IN  IF fx.root # fy.root
        THEN [fy.parent EXCEPT ![fx.root] = fy.root]
        ELSE fy.parent

(***************************************************************************)
(* buildClusters                                                           *)
(***************************************************************************)
\* pairs.forEach(([a, b]) => uf.union(a, b))
RECURSIVE UnionAll(_, _, _)
UnionAll(parent, pairs, i) ==
    IF i > Len(pairs) THEN parent
    ELSE UnionAll(union(parent, pairs[i][1], pairs[i][2]), pairs, i + 1)

\* the ids with the right endpoint of every pair visited first: b1, a1, b2, a2, ...
EndpointsRightFirst(pairs) ==
    [i \in 1..(2 * Len(pairs)) |-> pairs[(i + 1) \div 2][IF i % 2 = 1 THEN 2 ELSE 1]]

\* the ids in the order the second pass visits them: a1, b1, a2, b2, ...
Endpoints(pairs) ==
    [i \in 1..(2 * Len(pairs)) |-> pairs[(i + 1) \div 2][IF i % 2 = 1 THEN 1 ELSE 2]]

MapHas(m, k) == \E i \in 1..Len(m) : m[i].key = k
MapIndex(m, k) == CHOOSE i \in 1..Len(m) : m[i].key = k
MapValues(m) == [i \in 1..Len(m) |-> m[i].val]

\* if (!clusterMap.has(root)) clusterMap.set(root, []); clusterMap.get(root).push(id)
MapPush(m, k, v) ==
    IF MapHas(m, k)
    THEN [m EXCEPT ![MapIndex(m, k)].val = Append(@, v)]
    ELSE Append(m, [key |-> k, val |-> <<v>>])

RECURSIVE GroupByRootNoProcessed(_, _, _)
GroupByRootNoProcessed(st, ids, i) ==
    IF i > Len(ids) THEN st
    ELSE LET f == find(st.parent, ids[i])
         IN  GroupByRootNoProcessed([parent     |-> f.parent,
                                     processedIds |-> st.processedIds \cup {ids[i]},
                                     clusterMap |-> MapPush(st.clusterMap, f.root, ids[i])],
                                    ids, i + 1)

RECURSIVE GroupByRoot(_, _, _)
GroupByRoot(st, ids, i) ==
    IF i > Len(ids) THEN st
    ELSE IF ids[i] \in st.processedIds
         THEN GroupByRoot(st, ids, i + 1)
         ELSE LET f == find(st.parent, ids[i])
              IN  GroupByRoot([parent     |-> f.parent,
                               processedIds |-> st.processedIds \cup {ids[i]},
                               clusterMap |-> MapPush(st.clusterMap, f.root, ids[i])],
                              ids, i + 1)

\* buildClusters with every cluster listed from its representative
buildClustersRootFirst(pairs) ==
    LET uf == UnionAll(EmptyMap, pairs, 1)
        st == GroupByRoot([parent |-> uf, processedIds |-> {}, clusterMap |-> <<>>],
                          Endpoints(pairs), 1)
    IN  [i \in 1..Len(st.clusterMap) |->
            <<st.clusterMap[i].key>>
                \o SelectSeq(st.clusterMap[i].val, LAMBDA id : id # st.clusterMap[i].key)]

buildClusters(pairs) ==
    LET uf == UnionAll(EmptyMap, pairs, 1)
        st == GroupByRoot([parent |-> uf, processedIds |-> {}, clusterMap |-> <<>>],
                          Endpoints(pairs), 1)
    IN  MapValues(st.clusterMap)

(***************************************************************************)
(* sortCluster                                                             *)
(***************************************************************************)
SetAdd(s, x) == IF x \in Range(s) THEN s ELSE Append(s, x)

\* the adjacency list without the reverse edge of line 253
RECURSIVE BuildGraphOneWay(_, _, _, _)
BuildGraphOneWay(graph, cluster, pairs, i) ==
    IF i > Len(pairs) THEN graph
    ELSE LET a == pairs[i][1]
             b == pairs[i][2]
         IN  IF a \in Range(cluster) /\ b \in Range(cluster)
             THEN BuildGraphOneWay([graph EXCEPT ![a] = SetAdd(@, b)], cluster, pairs, i + 1)
             ELSE BuildGraphOneWay(graph, cluster, pairs, i + 1)

\* the adjacency list: graph[id] is the Set of id's neighbours, in insertion order
RECURSIVE BuildGraph(_, _, _, _)
BuildGraph(graph, cluster, pairs, i) ==
    IF i > Len(pairs) THEN graph
    ELSE LET a == pairs[i][1]
             b == pairs[i][2]
         IN  IF a \in Range(cluster) /\ b \in Range(cluster)
             THEN LET g1 == [graph EXCEPT ![a] = SetAdd(@, b)]
                      g2 == [g1 EXCEPT ![b] = SetAdd(@, a)]
                  IN  BuildGraph(g2, cluster, pairs, i + 1)
             ELSE BuildGraph(graph, cluster, pairs, i + 1)

\* products.get(id)!.price throws a TypeError when id is not in the product map
Throws(cluster, prods) == \E i \in 1..Len(cluster) : cluster[i] \notin DOMAIN prods

RECURSIVE FindStartLast(_, _, _, _)
FindStartLast(cluster, prods, i, start) ==
    IF i > Len(cluster) THEN start
    ELSE IF prods[cluster[i]] >= prods[start]
         THEN FindStartLast(cluster, prods, i + 1, cluster[i])
         ELSE FindStartLast(cluster, prods, i + 1, start)

\* let start = cluster[0]; cluster.forEach(id => { if (price > maxPrice) ... })
RECURSIVE FindStart(_, _, _, _)
FindStart(cluster, prods, i, start) ==
    IF i > Len(cluster) THEN start
    ELSE IF prods[cluster[i]] > prods[start]
         THEN FindStart(cluster, prods, i + 1, cluster[i])
         ELSE FindStart(cluster, prods, i + 1, start)

\* the while loop; queueIndex is 1-based here
RECURSIVE BFS(_, _, _, _, _, _)
BFS(graph, prods, queue, queueIndex, visited, out) ==
    IF queueIndex > Len(queue) THEN out
    ELSE LET current   == queue[queueIndex]
             unvisited == SelectSeq(graph[current], LAMBDA n : n \notin visited)
             neighbors == StableSort(unvisited,
                                     [j \in 1..Len(unvisited) |-> 0 - prods[unvisited[j]]])
         IN  BFS(graph, prods, queue \o neighbors, queueIndex + 1,
                 visited \cup Range(neighbors), Append(out, current))

sortCluster(cluster, pairs, prods) ==
    LET graph == BuildGraph([id \in Range(cluster) |-> <<>>], cluster, pairs, 1)
        start == FindStart(cluster, prods, 1, cluster[1])
    IN  BFS(graph, prods, <<start>>, 1, {start}, <<>>)

(***************************************************************************)
(* the ranking of the clusters (the sortedHorizontalClusters memo)         *)
(***************************************************************************)
\* Math.max(...a.map(p => p.price))
MaxPriceOf(cluster, prods) ==
    CHOOSE m \in {prods[cluster[i]] : i \in 1..Len(cluster)} :
        \A i \in 1..Len(cluster) : prods[cluster[i]] <= m

RankClustersAscending(clusters, prods) ==
    StableSort(clusters, [i \in 1..Len(clusters) |-> MaxPriceOf(clusters[i], prods)])

\* sorted.sort((a, b) => maxPriceB - maxPriceA)
RankClusters(clusters, prods) ==
    StableSort(clusters, [i \in 1..Len(clusters) |-> 0 - MaxPriceOf(clusters[i], prods)])

(***************************************************************************)
(* buildVerticalClusters and analyzeClusterChains                          *)
(***************************************************************************)
\* line 388: sortedHorizontalClusters.map((_, idx) => [idx])
SingletonGroupsOneBased(clusters) == [i \in 1..Len(clusters) |-> <<i>>]

SingletonGroups(clusters) == [i \in 1..Len(clusters) |-> <<i - 1>>]

\* productToClusterIdx: a later set() of the same id overwrites an earlier one
productToClusterIdx(clusters) ==
    [id \in UNION {Range(clusters[i]) : i \in 1..Len(clusters)} |->
        (CHOOSE i \in 1..Len(clusters) :
            /\ id \in Range(clusters[i])
            /\ \A j \in 1..Len(clusters) : id \in Range(clusters[j]) => j <= i) - 1]

pairKey(clusterIdxA, clusterIdxB) ==
    IF clusterIdxA < clusterIdxB
    THEN String(clusterIdxA) \o "-" \o String(clusterIdxB)
    ELSE String(clusterIdxB) \o "-" \o String(clusterIdxA)

\* connectionCounts.get(pairKey) || 0
CountOf(connectionCounts, key) ==
    IF key \in DOMAIN connectionCounts THEN connectionCounts[key] ELSE 0

RECURSIVE analyzeClusterChains(_, _, _, _)
analyzeClusterChains(connectionCounts, p2c, pairs, i) ==
    IF i > Len(pairs) THEN connectionCounts
    ELSE LET productA == pairs[i][1]
             productB == pairs[i][2]
         IN  IF /\ productA \in DOMAIN p2c
                /\ productB \in DOMAIN p2c
                /\ p2c[productA] # p2c[productB]
             THEN LET key == pairKey(p2c[productA], p2c[productB])
                      cc  == IF key \in DOMAIN connectionCounts
                             THEN [connectionCounts EXCEPT ![key] = @ + 1]
                             ELSE connectionCounts @@ (key :> 1)
                  IN  analyzeClusterChains(cc, p2c, pairs, i + 1)
             ELSE analyzeClusterChains(connectionCounts, p2c, pairs, i + 1)

\* lines 403-411: union of the cluster indices of every resolvable pair
RECURSIVE UnionVerticalSameEndpoint(_, _, _, _)
UnionVerticalSameEndpoint(parent, p2c, pairs, i) ==
    IF i > Len(pairs) THEN parent
    ELSE LET productA == pairs[i][1]
             productB == pairs[i][2]
         IN  IF productA \in DOMAIN p2c /\ productB \in DOMAIN p2c
             THEN UnionVerticalSameEndpoint(
                      union(parent, String(p2c[productA]), String(p2c[productA])),
                      p2c, pairs, i + 1)
             ELSE UnionVerticalSameEndpoint(parent, p2c, pairs, i + 1)

\* lines 403-411 without the test of line 408: String(undefined) is "undefined"
RECURSIVE UnionVerticalNoDefinedCheck(_, _, _, _)
UnionVerticalNoDefinedCheck(parent, p2c, pairs, i) ==
    IF i > Len(pairs) THEN parent
    ELSE LET productA == pairs[i][1]
             productB == pairs[i][2]
             keyA == IF productA \in DOMAIN p2c THEN String(p2c[productA]) ELSE "undefined"
             keyB == IF productB \in DOMAIN p2c THEN String(p2c[productB]) ELSE "undefined"
         IN  UnionVerticalNoDefinedCheck(union(parent, keyA, keyB), p2c, pairs, i + 1)

RECURSIVE UnionVertical(_, _, _, _)
UnionVertical(parent, p2c, pairs, i) ==
    IF i > Len(pairs) THEN parent
    ELSE LET productA == pairs[i][1]
             productB == pairs[i][2]
         IN  IF productA \in DOMAIN p2c /\ productB \in DOMAIN p2c
             THEN UnionVertical(union(parent, String(p2c[productA]), String(p2c[productB])),
                                p2c, pairs, i + 1)
             ELSE UnionVertical(parent, p2c, pairs, i + 1)

\* lines 414-422: bucket the indices 0..n-1 by their root
RECURSIVE GroupIndices(_, _, _, _)
GroupIndices(parent, verticalClusterMap, n, idx) ==
    IF idx >= n THEN verticalClusterMap
    ELSE LET f == find(parent, String(idx))
         IN  GroupIndices(f.parent, MapPush(verticalClusterMap, f.root, idx), n, idx + 1)

\* Map.prototype.set: an existing key keeps its place
MapSet(m, k, v) ==
    IF MapHas(m, k)
    THEN [m EXCEPT ![MapIndex(m, k)].val = v]
    ELSE Append(m, [key |-> k, val |-> v])

\* lines 432-451: groupConnections[clusterIdx] is the inner Map target -> weight
RECURSIVE PopulateConnections(_, _, _, _)
PopulateConnections(gc, group, connectionCounts, k) ==
    LET n == Len(group)
    IN  IF k > n * n THEN gc
        ELSE LET clusterIdxA == group[((k - 1) \div n) + 1]
                 clusterIdxB == group[((k - 1) % n) + 1]
                 weight == CountOf(connectionCounts, pairKey(clusterIdxA, clusterIdxB))
             IN  IF clusterIdxA # clusterIdxB /\ weight > 0
                 THEN LET g1 == [gc EXCEPT ![clusterIdxA] = MapSet(@, clusterIdxB, weight)]
                          g2 == [g1 EXCEPT ![clusterIdxB] = MapSet(@, clusterIdxA, weight)]
                      IN  PopulateConnections(g2, group, connectionCounts, k + 1)
                 ELSE PopulateConnections(gc, group, connectionCounts, k + 1)

RECURSIVE SumWeights(_, _)
SumWeights(connections, i) ==
    IF i > Len(connections) THEN 0
    ELSE connections[i].val + SumWeights(connections, i + 1)

\* sortedHorizontalClusters[clusterIdx][0]?.id || ''
FirstProduct(clusters, clusterIdx) ==
    IF Len(clusters[clusterIdx + 1]) > 0 THEN clusters[clusterIdx + 1][1] ELSE ""

\* lines 454-470 without the update of maxConnections at line 461
RECURSIVE FindStartClusterStaleMax(_, _, _, _, _)
FindStartClusterStaleMax(st, group, gc, clusters, i) ==
    IF i > Len(group) THEN st.startCluster
    ELSE LET clusterIdx  == group[i]
             totalWeight == SumWeights(gc[clusterIdx], 1)
         IN  IF totalWeight > st.maxConnections
             THEN FindStartClusterStaleMax([st EXCEPT !.startCluster = clusterIdx],
                                           group, gc, clusters, i + 1)
             ELSE IF /\ totalWeight = st.maxConnections
                     /\ localeCompare(FirstProduct(clusters, clusterIdx),
                                      FirstProduct(clusters, st.startCluster)) < 0
                  THEN FindStartClusterStaleMax([st EXCEPT !.startCluster = clusterIdx],
                                                group, gc, clusters, i + 1)
                  ELSE FindStartClusterStaleMax(st, group, gc, clusters, i + 1)

\* lines 454-470 with the comparison of line 466 turned round
RECURSIVE FindStartClusterTieLargest(_, _, _, _, _)
FindStartClusterTieLargest(st, group, gc, clusters, i) ==
    IF i > Len(group) THEN st.startCluster
    ELSE LET clusterIdx  == group[i]
             totalWeight == SumWeights(gc[clusterIdx], 1)
         IN  IF totalWeight > st.maxConnections
             THEN FindStartClusterTieLargest([maxConnections |-> totalWeight,
                                              startCluster |-> clusterIdx],
                                             group, gc, clusters, i + 1)
             ELSE IF /\ totalWeight = st.maxConnections
                     /\ localeCompare(FirstProduct(clusters, clusterIdx),
                                      FirstProduct(clusters, st.startCluster)) > 0
                  THEN FindStartClusterTieLargest([st EXCEPT !.startCluster = clusterIdx],
                                                  group, gc, clusters, i + 1)
                  ELSE FindStartClusterTieLargest(st, group, gc, clusters, i + 1)

\* lines 454-470: st = [maxConnections, startCluster]
RECURSIVE FindStartCluster(_, _, _, _, _)
FindStartCluster(st, group, gc, clusters, i) ==
    IF i > Len(group) THEN st.startCluster
    ELSE LET clusterIdx  == group[i]
             totalWeight == SumWeights(gc[clusterIdx], 1)
         IN  IF totalWeight > st.maxConnections
             THEN FindStartCluster([maxConnections |-> totalWeight, startCluster |-> clusterIdx],
                                   group, gc, clusters, i + 1)
             ELSE IF /\ totalWeight = st.maxConnections
                     /\ localeCompare(FirstProduct(clusters, clusterIdx),
                                      FirstProduct(clusters, st.startCluster)) < 0
                  THEN FindStartCluster([st EXCEPT !.startCluster = clusterIdx],
                                        group, gc, clusters, i + 1)
                  ELSE FindStartCluster(st, group, gc, clusters, i + 1)

\* the entries the two nested forEach of lines 481-498 visit, in order
RECURSIVE VisitedConnections(_, _, _)
VisitedConnections(ordered, gc, i) ==
    IF i > Len(ordered) THEN <<>>
    ELSE gc[ordered[i]] \o VisitedConnections(ordered, gc, i + 1)

\* lines 484-496: st = [nextCluster, maxWeight]
RECURSIVE PickNextIgnoringVisited(_, _, _, _, _)
PickNextIgnoringVisited(st, entries, visited, clusters, i) ==
    IF i > Len(entries) THEN st.nextCluster
    ELSE LET weight        == entries[i].val
             targetCluster == entries[i].key
         IN  IF weight > st.maxWeight
             THEN PickNextIgnoringVisited([nextCluster |-> targetCluster, maxWeight |-> weight],
                                          entries, visited, clusters, i + 1)
             ELSE IF /\ weight = st.maxWeight
                     /\ st.nextCluster # -1
                     /\ localeCompare(FirstProduct(clusters, targetCluster),
                                      FirstProduct(clusters, st.nextCluster)) < 0
                  THEN PickNextIgnoringVisited([st EXCEPT !.nextCluster = targetCluster],
                                               entries, visited, clusters, i + 1)
                  ELSE PickNextIgnoringVisited(st, entries, visited, clusters, i + 1)

\* lines 484-496 keeping the first unvisited target met, whatever its weight
RECURSIVE PickNextFirstFound(_, _, _, _, _)
PickNextFirstFound(st, entries, visited, clusters, i) ==
    IF i > Len(entries) THEN st.nextCluster
    ELSE LET weight        == entries[i].val
             targetCluster == entries[i].key
         IN  IF targetCluster \in visited \/ st.nextCluster # -1
             THEN PickNextFirstFound(st, entries, visited, clusters, i + 1)
             ELSE PickNextFirstFound([nextCluster |-> targetCluster, maxWeight |-> weight],
                                     entries, visited, clusters, i + 1)

RECURSIVE PickNext(_, _, _, _, _)
PickNext(st, entries, visited, clusters, i) ==
    IF i > Len(entries) THEN st.nextCluster
    ELSE LET weight        == entries[i].val
             targetCluster == entries[i].key
         IN  IF targetCluster \in visited
             THEN PickNext(st, entries, visited, clusters, i + 1)
             ELSE IF weight > st.maxWeight
                  THEN PickNext([nextCluster |-> targetCluster, maxWeight |-> weight],
                                entries, visited, clusters, i + 1)
                  ELSE IF /\ weight = st.maxWeight
                          /\ st.nextCluster # -1
                          /\ localeCompare(FirstProduct(clusters, targetCluster),
                                           FirstProduct(clusters, st.nextCluster)) < 0
                       THEN PickNext([st EXCEPT !.nextCluster = targetCluster],
                                     entries, visited, clusters, i + 1)
                       ELSE PickNext(st, entries, visited, clusters, i + 1)

\* lines 476-514: the while loop that grows the ordering
RECURSIVE GrowOrder(_, _, _, _, _)
GrowOrder(ordered, visited, group, gc, clusters) ==
    IF Len(ordered) >= Len(group) THEN ordered
    ELSE LET nextCluster == PickNext([nextCluster |-> -1, maxWeight |-> 0],
                                     VisitedConnections(ordered, gc, 1),
                                     visited, clusters, 1)
         IN  IF nextCluster = -1
             THEN LET remaining == SelectSeq(group, LAMBDA c : c \notin visited)
                  IN  ordered \o StableSort(remaining,
                                    [j \in 1..Len(remaining) |->
                                        IdRank[FirstProduct(clusters, remaining[j])]])
             ELSE GrowOrder(Append(ordered, nextCluster), visited \cup {nextCluster},
                            group, gc, clusters)

\* lines 428-518: the body of verticalClusters.forEach(group => ...)
OrderGroup(group, connectionCounts, clusters) ==
    IF Len(group) <= 1 THEN group
    ELSE LET gc == PopulateConnections([c \in Range(group) |-> <<>>],
                                       group, connectionCounts, 1)
             startCluster == FindStartCluster([maxConnections |-> 0,
                                               startCluster |-> group[1]],
                                              group, gc, clusters, 1)
         IN  GrowOrder(<<startCluster>>, {startCluster}, group, gc, clusters)

buildVerticalClusters(clusters, pairs) ==
    IF Len(pairs) = 0
    THEN SingletonGroups(clusters)
    ELSE LET p2c == productToClusterIdx(clusters)
             connectionCounts == analyzeClusterChains(EmptyMap, p2c, pairs, 1)
             uf == UnionVertical(EmptyMap, p2c, pairs, 1)
             groups == MapValues(GroupIndices(uf, <<>>, Len(clusters), 0))
             orderedGroups == [g \in 1..Len(groups) |->
                                  OrderGroup(groups[g], connectionCounts, clusters)]
         IN  \* verticalClusters.sort((a, b) => a[0] - b[0])
             StableSort(orderedGroups, [g \in 1..Len(orderedGroups) |-> orderedGroups[g][1]])

(***************************************************************************)
(* buildVerticalConnectionMap: a Map from an item id to the array of the   *)
(* ids linked to it.  The Map is only read with get(), so it is a function *)
(* from the ids that have an entry to their arrays.                        *)
(***************************************************************************)
\* verticalConnectionMap.get(id) || []
ConnectedIds(connectionMap, id) ==
    IF id \in DOMAIN connectionMap THEN connectionMap[id] ELSE <<>>

\* if (!connectionMap.has(k)) connectionMap.set(k, []); connectionMap.get(k)!.push(v)
ListPushUnique(connectionMap, k, v) ==
    IF k \in DOMAIN connectionMap
    THEN IF v \in Range(connectionMap[k])
         THEN connectionMap
         ELSE [connectionMap EXCEPT ![k] = Append(@, v)]
    ELSE connectionMap @@ (k :> <<v>>)

ListPush(connectionMap, k, v) ==
    IF k \in DOMAIN connectionMap
    THEN [connectionMap EXCEPT ![k] = Append(@, v)]
    ELSE connectionMap @@ (k :> <<v>>)

\* lines 542-559 without the reverse entry of lines 553-557
RECURSIVE StoreConnectionsOneWay(_, _, _, _)
StoreConnectionsOneWay(connectionMap, p2c, pairs, i) ==
    IF i > Len(pairs) THEN connectionMap
    ELSE LET productA == pairs[i][1]
             productB == pairs[i][2]
         IN  IF /\ productA \in DOMAIN p2c
                /\ productB \in DOMAIN p2c
                /\ p2c[productA] # p2c[productB]
             THEN StoreConnectionsOneWay(ListPush(connectionMap, productA, productB),
                                         p2c, pairs, i + 1)
             ELSE StoreConnectionsOneWay(connectionMap, p2c, pairs, i + 1)

\* lines 542-559
RECURSIVE StoreConnections(_, _, _, _)
StoreConnections(connectionMap, p2c, pairs, i) ==
    IF i > Len(pairs) THEN connectionMap
    ELSE LET productA == pairs[i][1]
             productB == pairs[i][2]
         IN  IF /\ productA \in DOMAIN p2c
                /\ productB \in DOMAIN p2c
                /\ p2c[productA] # p2c[productB]
             THEN StoreConnections(
                      ListPush(ListPush(connectionMap, productA, productB),
                               productB, productA),
                      p2c, pairs, i + 1)
             ELSE StoreConnections(connectionMap, p2c, pairs, i + 1)

buildVerticalConnectionMap(clusters, pairs) ==
    StoreConnections(EmptyMap, productToClusterIdx(clusters), pairs, 1)

(***************************************************************************)
(* renderStructure: label, items and hue of every ranked cluster.          *)
(***************************************************************************)
primeSequence == <<2, 3, 5, 7, 11, 13, 17, 19, 23, 29, 31, 37, 41, 43, 47>>

\* lines 584-585
colorSeed(clusterIdx) ==
    LET primeVal == primeSequence[(clusterIdx % Len(primeSequence)) + 1]
    IN  (primeVal * 13) % 360

\* lines 579-588: mfg is `Cluster ${clusterIdx + 1}`
buildRenderStructure(clusters) ==
    [i \in 1..Len(clusters) |->
        [mfg |-> "Cluster " \o String(i),
         itemsForMfg |-> clusters[i],
         colorSeed |-> colorSeed(i - 1)]]

(***************************************************************************)
(* clusterOffsets: the horizontal offset of every cluster.                 *)
(***************************************************************************)
CARD_WIDTH == 200
CARD_GAP == 20
CONNECTOR_WIDTH == 40

\* productIdToClusterIndex / productPositionIndex: a later set() of the same
\* id overwrites an earlier one
productPositionIndex(clusters) ==
    [id \in UNION {Range(clusters[i]) : i \in 1..Len(clusters)} |->
        LET ci == CHOOSE i \in 1..Len(clusters) :
                      /\ id \in Range(clusters[i])
                      /\ \A j \in 1..Len(clusters) : id \in Range(clusters[j]) => j <= i
            pj == CHOOSE j \in 1..Len(clusters[ci]) :
                      /\ clusters[ci][j] = id
                      /\ \A k \in 1..Len(clusters[ci]) : clusters[ci][k] = id => k <= j
        IN  [clusterIdx |-> ci - 1, positionInCluster |-> pj - 1]]

\* offsets.get(clusterIdx) || 0
OffsetOf(offsets, clusterIdx) ==
    IF clusterIdx \in DOMAIN offsets THEN offsets[clusterIdx] ELSE 0

\* offsets.set(clusterIdx, value)
OffsetSet(offsets, clusterIdx, value) ==
    [c \in DOMAIN offsets \cup {clusterIdx} |->
        IF c = clusterIdx THEN value ELSE offsets[c]]

\* lines 627-634: the position of the first entry that lies in the current
\* cluster, -1 when there is none
RECURSIVE FindTarget(_, _, _, _)
FindTarget(connectedProductIds, k, index, currentClusterIdx) ==
    IF k > Len(connectedProductIds) THEN -1
    ELSE LET connectedProductId == connectedProductIds[k]
         IN  IF /\ connectedProductId \in DOMAIN index
                /\ index[connectedProductId].clusterIdx = currentClusterIdx
             THEN index[connectedProductId].positionInCluster
             ELSE FindTarget(connectedProductIds, k + 1, index, currentClusterIdx)

\* lines 620-637: j is the 0-based position scanned in prevCluster
RECURSIVE FindAnchorLast(_, _, _, _, _)
FindAnchorLast(prevCluster, j, connectionMap, index, currentClusterIdx) ==
    IF j >= Len(prevCluster)
    THEN [sourceProductIdx |-> -1, targetProductIdx |-> -1]
    ELSE LET later == FindAnchorLast(prevCluster, j + 1, connectionMap, index, currentClusterIdx)
             target == FindTarget(ConnectedIds(connectionMap, prevCluster[j + 1]), 1,
                                  index, currentClusterIdx)
         IN  IF later.sourceProductIdx # -1 THEN later
             ELSE IF target # -1
                  THEN [sourceProductIdx |-> j, targetProductIdx |-> target]
                  ELSE later

RECURSIVE FindAnchor(_, _, _, _, _)
FindAnchor(prevCluster, j, connectionMap, index, currentClusterIdx) ==
    IF j >= Len(prevCluster)
    THEN [sourceProductIdx |-> -1, targetProductIdx |-> -1]
    ELSE LET target == FindTarget(ConnectedIds(connectionMap, prevCluster[j + 1]), 1,
                                  index, currentClusterIdx)
         IN  IF target # -1
             THEN [sourceProductIdx |-> j, targetProductIdx |-> target]
             ELSE FindAnchor(prevCluster, j + 1, connectionMap, index, currentClusterIdx)

\* lines 639-648 with the fallback of line 647 replaced by offset 0
AlignedOffsetNoFallback(offsets, prevClusterIdx, anchor) ==
    IF anchor.sourceProductIdx # -1 /\ anchor.targetProductIdx # -1
    THEN LET prevOffset == OffsetOf(offsets, prevClusterIdx)
             sourceCardOffset == prevOffset + anchor.sourceProductIdx
                                     * (CARD_WIDTH + CARD_GAP + CONNECTOR_WIDTH)
             targetCardOffset == anchor.targetProductIdx
                                     * (CARD_WIDTH + CARD_GAP + CONNECTOR_WIDTH)
         IN  sourceCardOffset - targetCardOffset
    ELSE 0

\* lines 639-648
AlignedOffset(offsets, prevClusterIdx, anchor) ==
    IF anchor.sourceProductIdx # -1 /\ anchor.targetProductIdx # -1
    THEN LET prevOffset == OffsetOf(offsets, prevClusterIdx)
             sourceCardOffset == prevOffset + anchor.sourceProductIdx
                                     * (CARD_WIDTH + CARD_GAP + CONNECTOR_WIDTH)
             targetCardOffset == anchor.targetProductIdx
                                     * (CARD_WIDTH + CARD_GAP + CONNECTOR_WIDTH)
         IN  sourceCardOffset - targetCardOffset
    ELSE OffsetOf(offsets, prevClusterIdx)

\* lines 613-649: i is the 0-based position in verticalCluster
RECURSIVE OffsetsOfGroup(_, _, _, _, _, _)
OffsetsOfGroup(offsets, verticalCluster, i, clusters, connectionMap, index) ==
    IF i >= Len(verticalCluster) THEN offsets
    ELSE LET currentClusterIdx == verticalCluster[i + 1]
             prevClusterIdx    == verticalCluster[i]
             prevCluster       == clusters[prevClusterIdx + 1]
             anchor == FindAnchor(prevCluster, 0, connectionMap, index, currentClusterIdx)
         IN  OffsetsOfGroup(
                 OffsetSet(offsets, currentClusterIdx,
                           AlignedOffset(offsets, prevClusterIdx, anchor)),
                 verticalCluster, i + 1, clusters, connectionMap, index)

\* lines 606-611 with the first cluster given the offset of one card step
RECURSIVE OffsetsOfGroupsFirstShifted(_, _, _, _, _, _)
OffsetsOfGroupsFirstShifted(offsets, groups, g, clusters, connectionMap, index) ==
    IF g > Len(groups) THEN offsets
    ELSE IF Len(groups[g]) = 0
         THEN OffsetsOfGroupsFirstShifted(offsets, groups, g + 1, clusters, connectionMap, index)
         ELSE OffsetsOfGroupsFirstShifted(
                  OffsetsOfGroup(OffsetSet(offsets, groups[g][1],
                                           CARD_WIDTH + CARD_GAP + CONNECTOR_WIDTH),
                                 groups[g], 1, clusters, connectionMap, index),
                  groups, g + 1, clusters, connectionMap, index)

\* lines 606-650
RECURSIVE OffsetsOfGroups(_, _, _, _, _, _)
OffsetsOfGroups(offsets, groups, g, clusters, connectionMap, index) ==
    IF g > Len(groups) THEN offsets
    ELSE IF Len(groups[g]) = 0
         THEN OffsetsOfGroups(offsets, groups, g + 1, clusters, connectionMap, index)
         ELSE OffsetsOfGroups(
                  OffsetsOfGroup(OffsetSet(offsets, groups[g][1], 0),
                                 groups[g], 1, clusters, connectionMap, index),
                  groups, g + 1, clusters, connectionMap, index)

calculateClusterOffsets(clusters, groups, connectionMap) ==
    OffsetsOfGroups(EmptyMap, groups, 1, clusters, connectionMap,
                    productPositionIndex(clusters))

(***************************************************************************)
(* svgContent, lines 762-804: the connectors of every cluster.  A          *)
(* connector is the record pushed at lines 790-796 without fromY, the      *)
(* pixel row of the source cluster.  ctx holds what the loops read:        *)
(* clusters, connectionMap, index and horizontalClusterIdx.                *)
(***************************************************************************)
\* connectors.some(c => c.fromIdx === prevIdx && c.toIdx === currentIdx
\*                      && c.sourceClusterIdx === prevClusterIdx)
alreadyConnected(conns, prevIdx, currentIdx, prevClusterIdx) ==
    \E c \in 1..Len(conns) :
        /\ conns[c].fromIdx = prevIdx
        /\ conns[c].toIdx = currentIdx
        /\ conns[c].sourceClusterIdx = prevClusterIdx

\* lines 781-798 without the test of alreadyConnected
RECURSIVE ScanConnectedNoDedupe(_, _, _, _, _, _, _)
ScanConnectedNoDedupe(conns, connectedProductIds, k, prevIdx, prevClusterIdx, clusterSpan, ctx) ==
    IF k > Len(connectedProductIds) THEN conns
    ELSE LET connectedProductId == connectedProductIds[k]
         IN  IF /\ connectedProductId \in DOMAIN ctx.index
                /\ ctx.index[connectedProductId].clusterIdx = ctx.horizontalClusterIdx
             THEN LET currentIdx == ctx.index[connectedProductId].positionInCluster
                  IN  ScanConnectedNoDedupe(
                          Append(conns, [fromIdx |-> prevIdx, toIdx |-> currentIdx,
                                         sourceClusterIdx |-> prevClusterIdx,
                                         clusterSpan |-> clusterSpan]),
                          connectedProductIds, k + 1, prevIdx, prevClusterIdx, clusterSpan, ctx)
             ELSE ScanConnectedNoDedupe(conns, connectedProductIds, k + 1, prevIdx,
                                        prevClusterIdx, clusterSpan, ctx)

\* lines 781-798: the entries of one item of the earlier cluster
RECURSIVE ScanConnected(_, _, _, _, _, _, _)
ScanConnected(conns, connectedProductIds, k, prevIdx, prevClusterIdx, clusterSpan, ctx) ==
    IF k > Len(connectedProductIds) THEN conns
    ELSE LET connectedProductId == connectedProductIds[k]
         IN  IF /\ connectedProductId \in DOMAIN ctx.index
                /\ ctx.index[connectedProductId].clusterIdx = ctx.horizontalClusterIdx
             THEN LET currentIdx == ctx.index[connectedProductId].positionInCluster
                  IN  IF ~alreadyConnected(conns, prevIdx, currentIdx, prevClusterIdx)
                      THEN ScanConnected(
                               Append(conns, [fromIdx |-> prevIdx, toIdx |-> currentIdx,
                                              sourceClusterIdx |-> prevClusterIdx,
                                              clusterSpan |-> clusterSpan]),
                               connectedProductIds, k + 1, prevIdx, prevClusterIdx,
                               clusterSpan, ctx)
                      ELSE ScanConnected(conns, connectedProductIds, k + 1, prevIdx,
                                         prevClusterIdx, clusterSpan, ctx)
             ELSE ScanConnected(conns, connectedProductIds, k + 1, prevIdx,
                                prevClusterIdx, clusterSpan, ctx)

\* line 779: prevCluster.forEach((prevProduct, prevIdx) => ...), j = prevIdx
RECURSIVE ScanPrevCluster(_, _, _, _, _, _)
ScanPrevCluster(conns, prevCluster, j, prevClusterIdx, clusterSpan, ctx) ==
    IF j >= Len(prevCluster) THEN conns
    ELSE ScanPrevCluster(
             ScanConnected(conns, ConnectedIds(ctx.connectionMap, prevCluster[j + 1]), 1,
                           j, prevClusterIdx, clusterSpan, ctx),
             prevCluster, j + 1, prevClusterIdx, clusterSpan, ctx)

\* lines 774-803 with the span counted as the clusters passed over
RECURSIVE ScanEarlierSpanSkipped(_, _, _, _, _)
ScanEarlierSpanSkipped(conns, verticalCluster, prevPos, currentPosition, ctx) ==
    IF prevPos >= currentPosition THEN conns
    ELSE LET prevClusterIdx == verticalCluster[prevPos + 1]
             prevCluster    == ctx.clusters[prevClusterIdx + 1]
             clusterSpan    == currentPosition - prevPos - 1
         IN  ScanEarlierSpanSkipped(
                 ScanPrevCluster(conns, prevCluster, 0, prevClusterIdx, clusterSpan, ctx),
                 verticalCluster, prevPos + 1, currentPosition, ctx)

\* lines 774-803: for (let prevPos = 0; prevPos < currentPosition; prevPos++)
RECURSIVE ScanEarlier(_, _, _, _, _)
ScanEarlier(conns, verticalCluster, prevPos, currentPosition, ctx) ==
    IF prevPos >= currentPosition THEN conns
    ELSE LET prevClusterIdx == verticalCluster[prevPos + 1]
             prevCluster    == ctx.clusters[prevClusterIdx + 1]
             clusterSpan    == currentPosition - prevPos
         IN  ScanEarlier(
                 ScanPrevCluster(conns, prevCluster, 0, prevClusterIdx, clusterSpan, ctx),
                 verticalCluster, prevPos + 1, currentPosition, ctx)

\* lines 769-804 with the loop of line 774 started at the immediate predecessor
ConnectorsAtPredecessorOnly(verticalCluster, positionInVertical, clusters, connectionMap, index) ==
    IF positionInVertical > 0
    THEN ScanEarlier(<<>>, verticalCluster, positionInVertical - 1, positionInVertical,
                     [clusters |-> clusters, connectionMap |-> connectionMap,
                      index |-> index,
                      horizontalClusterIdx |-> verticalCluster[positionInVertical + 1]])
    ELSE <<>>

\* lines 769-804: the connectors of the cluster at positionInVertical
ConnectorsAt(verticalCluster, positionInVertical, clusters, connectionMap, index) ==
    IF positionInVertical > 0
    THEN ScanEarlier(<<>>, verticalCluster, 0, positionInVertical,
                     [clusters |-> clusters, connectionMap |-> connectionMap,
                      index |-> index,
                      horizontalClusterIdx |-> verticalCluster[positionInVertical + 1]])
    ELSE <<>>

\* lines 729 and 762: the connector list of every cluster drawn, by cluster
\* index; a cluster listed twice would keep the list computed last
svgConnectors(groups, clusters, connectionMap) ==
    LET index == productPositionIndex(clusters)
        drawn == UNION {Range(groups[g]) : g \in 1..Len(groups)}
    IN  [c \in drawn |->
            LET g == CHOOSE g \in 1..Len(groups) :
                         /\ c \in Range(groups[g])
                         /\ \A h \in 1..Len(groups) : c \in Range(groups[h]) => h <= g
                k == CHOOSE k \in 1..Len(groups[g]) :
                         /\ groups[g][k] = c
                         /\ \A m \in 1..Len(groups[g]) : groups[g][m] = c => m <= k
            IN  ConnectorsAt(groups[g], k - 1, clusters, connectionMap, index)]

SVG_PADDING == 60

\* Math.max(0, offset)
ClampedOffset(offset) == IF offset < 0 THEN 0 ELSE offset

\* line 830: the x of the card at position itmIdx of a cluster
cardX(offset, itmIdx) ==
    SVG_PADDING + ClampedOffset(offset) + itmIdx * (CARD_WIDTH + CARD_GAP + CONNECTOR_WIDTH)

\* lines 762-765 and 829-830: the cardX of every card drawn, by cluster index
svgCards(groups, structure, offsets) ==
    LET drawn == UNION {Range(groups[g]) : g \in 1..Len(groups)}
    IN  [c \in drawn |->
            [i \in 1..Len(structure[c + 1].itemsForMfg) |->
                cardX(OffsetOf(offsets, c), i - 1)]]

(***************************************************************************)
(* Pan and zoom.  A JavaScript number is modelled as an exact rational     *)
(* [num, den] in lowest terms with den > 0; Math.min and Math.max compare  *)
(* and return one of their arguments, which rounding does not affect.      *)
(***************************************************************************)
RECURSIVE Gcd(_, _)
Gcd(a, b) == IF b = 0 THEN a ELSE Gcd(b, a % b)
Abs(n) == IF n < 0 THEN 0 - n ELSE n
Rat(n, d) ==
    LET g == Gcd(Abs(n), Abs(d))
        sign == IF d < 0 THEN 0 - 1 ELSE 1
    IN  [num |-> sign * (n \div g), den |-> sign * (d \div g)]
RatMul(p, q) == Rat(p.num * q.num, p.den * q.den)
RatDiv(p, q) == Rat(p.num * q.den, p.den * q.num)
RatLeq(p, q) == p.num * q.den <= q.num * p.den
MathMin(p, q) == IF RatLeq(p, q) THEN p ELSE q
MathMax(p, q) == IF RatLeq(p, q) THEN q ELSE p

ZOOM_STEP == Rat(12, 10)
MAX_ZOOM == Rat(5, 1)
MIN_ZOOM == Rat(1, 10)
SCROLL_SENSITIVITY == 1000

\* setZoomLevel(prev => Math.min(prev * ZOOM_STEP, MAX_ZOOM))
zoomIn(prev) == MathMin(RatMul(prev, ZOOM_STEP), MAX_ZOOM)
\* setZoomLevel(prev => Math.max(prev / ZOOM_STEP, MIN_ZOOM))
zoomOut(prev) == MathMax(RatDiv(prev, ZOOM_STEP), MIN_ZOOM)
\* handleWheel's new zoom level without the two clamps
wheelZoomUnclamped(prev, deltaY) ==
    RatMul(prev, Rat(SCROLL_SENSITIVITY - deltaY, SCROLL_SENSITIVITY))
\* delta = -e.deltaY / SCROLL_SENSITIVITY;
\* Math.max(MIN_ZOOM, Math.min(MAX_ZOOM, prev * (1 + delta)))
wheelZoom(prev, deltaY) ==
    MathMax(MIN_ZOOM,
            MathMin(MAX_ZOOM,
                    RatMul(prev, Rat(SCROLL_SENSITIVITY - deltaY, SCROLL_SENSITIVITY))))

(***************************************************************************)
(* The state machine: one render of App.                                   *)
(***************************************************************************)
PartialProducts == UNION {[S -> Prices] : S \in SUBSET Ids}

InitRest ==
    /\ pc = "clustering"
    /\ horizontalClusters = <<>>
    /\ sorted = <<>>
    /\ sortedHorizontalClusters = <<>>
    /\ verticalClusters = <<>>
    /\ verticalConnectionMap = EmptyMap
    /\ renderStructure = <<>>
    /\ clusterOffsets = EmptyMap
    /\ connectors = EmptyMap
    /\ cards = EmptyMap
    /\ ufParent = EmptyMap
    /\ ufEdges = {}
    /\ ufCalls = 0
    /\ zoomLevel = Rat(1, 1)
    /\ panOffset = <<0, 0>>
    /\ isDragging = FALSE
    /\ dragStart = <<0, 0>>
    /\ lastHandler = ""
    /\ uiEvents = 0

Init ==
    /\ products \in PartialProducts
    /\ horizontalPairs \in SeqsUpTo(Pairs, MaxH)
    /\ verticalPairs = <<>>
    /\ InitRest

\* the memo of sortedHorizontalClusters: buildClusters, sortCluster on every
\* cluster, then the ranking; a TypeError of sortCluster aborts the render
ComputeSortedHorizontalClusters ==
    /\ pc = "clustering"
    /\ horizontalClusters' = buildClusters(horizontalPairs)
    /\ IF \E i \in 1..Len(horizontalClusters') : Throws(horizontalClusters'[i], products)
       THEN /\ pc' = "TypeError"
            /\ UNCHANGED <<sorted, sortedHorizontalClusters>>
       ELSE /\ sorted' = [i \in 1..Len(horizontalClusters') |->
                             sortCluster(horizontalClusters'[i], horizontalPairs, products)]
            /\ sortedHorizontalClusters' = RankClusters(sorted', products)
            /\ pc' = "grouping"
    /\ UNCHANGED <<products, horizontalPairs, verticalPairs, verticalClusters,
                   verticalConnectionMap, renderStructure, clusterOffsets, connectors>>
    /\ UNCHANGED <<cards, ufVars, uiVars>>

\* the memo of verticalClusters
ComputeVerticalClusters ==
    /\ pc = "grouping"
    /\ verticalClusters' = buildVerticalClusters(sortedHorizontalClusters, verticalPairs)
    /\ pc' = "connecting"
    /\ UNCHANGED <<products, horizontalPairs, verticalPairs, horizontalClusters,
                   sorted, sortedHorizontalClusters,
                   verticalConnectionMap, renderStructure, clusterOffsets, connectors>>
    /\ UNCHANGED <<cards, ufVars, uiVars>>

Next ==
    \/ ComputeSortedHorizontalClusters
    \/ ComputeVerticalClusters

Spec == Init /\ [][Next]_vars

\* the memo of verticalConnectionMap
ComputeVerticalConnectionMap ==
    /\ pc = "connecting"
    /\ verticalConnectionMap' = buildVerticalConnectionMap(sortedHorizontalClusters, verticalPairs)
    /\ pc' = "colouring"
    /\ UNCHANGED <<products, horizontalPairs, verticalPairs, horizontalClusters,
                   sorted, sortedHorizontalClusters, verticalClusters,
                   renderStructure, clusterOffsets, connectors>>
    /\ UNCHANGED <<cards, ufVars, uiVars>>

\* the memo of renderStructure
ComputeRenderStructure ==
    /\ pc = "colouring"
    /\ renderStructure' = buildRenderStructure(sortedHorizontalClusters)
    /\ pc' = "aligning"
    /\ UNCHANGED <<products, horizontalPairs, verticalPairs, horizontalClusters,
                   sorted, sortedHorizontalClusters, verticalClusters,
                   verticalConnectionMap, clusterOffsets, connectors>>
    /\ UNCHANGED <<cards, ufVars, uiVars>>

\* the memo of clusterOffsets
ComputeClusterOffsets ==
    /\ pc = "aligning"
    /\ clusterOffsets' = calculateClusterOffsets(sortedHorizontalClusters, verticalClusters,
                                                 verticalConnectionMap)
    /\ pc' = "drawing"
    /\ UNCHANGED <<products, horizontalPairs, verticalPairs, horizontalClusters,
                   sorted, sortedHorizontalClusters, verticalClusters,
                   verticalConnectionMap, renderStructure, connectors>>
    /\ UNCHANGED <<cards, ufVars, uiVars>>

\* the memo of svgContent
ComputeSvgContent ==
    /\ pc = "drawing"
    /\ connectors' = svgConnectors(verticalClusters, sortedHorizontalClusters,
                                   verticalConnectionMap)
    /\ cards' = svgCards(verticalClusters, renderStructure, clusterOffsets)
    /\ pc' = "drawn"
    /\ UNCHANGED <<products, horizontalPairs, verticalPairs, horizontalClusters,
                   sorted, sortedHorizontalClusters, verticalClusters,
                   verticalConnectionMap, renderStructure, clusterOffsets>>
    /\ UNCHANGED <<ufVars, uiVars>>

\* the whole render, layout included
NextL ==
    \/ ComputeSortedHorizontalClusters
    \/ ComputeVerticalClusters
    \/ ComputeVerticalConnectionMap
    \/ ComputeRenderStructure
    \/ ComputeClusterOffsets
    \/ ComputeSvgContent

\* The same render with vertical pairs present.  Every item is in the
\* collection and all prices are equal, so the ranking keeps the order in
\* which the clusters are built; a pair names the item that collates later
\* first, as the pairs of the sample data do (["B", "A"]), and no horizontal
\* pair is listed twice.
PairsV == {p \in Pairs : IdRank[p[1]] >= IdRank[p[2]]}
UnitPrices == [id \in Ids |-> 1]
DistinctSeqsUpTo(S, n) ==
    {s \in SeqsUpTo(S, n) : \A i, j \in 1..Len(s) : i < j => s[i] # s[j]}

InitV ==
    /\ products = UnitPrices
    /\ horizontalPairs \in DistinctSeqsUpTo(PairsV, MaxHV)
    /\ verticalPairs \in SeqsUpTo(PairsV, MaxV)
    /\ InitRest

SpecV == InitV /\ [][Next]_vars

\* The render with its layout, over four items of equal price.  The
\* horizontal pairs build the clusters {a, b}, {c, d}, {c} and {d} in any
\* order; the vertical pairs link them, one link in both orientations;
\* <<"b", "a">> lies inside a cluster, and so does <<"d", "c">> whenever c
\* and d share one.
PairsHL == {<<"a", "b">>, <<"d", "c">>, <<"c", "c">>, <<"d", "d">>}
PairsVL == {<<"c", "b">>, <<"b", "c">>, <<"d", "c">>, <<"d", "a">>, <<"b", "a">>}
UnitPricesL == [id \in IdsL |-> 1]

InitL ==
    /\ products = UnitPricesL
    /\ horizontalPairs \in DistinctSeqsUpTo(PairsHL, MaxHL)
    /\ verticalPairs \in SeqsUpTo(PairsVL, MaxVL)
    /\ InitRest

SpecL == InitL /\ [][NextL]_vars

\* The render up to the super-clusters where every vertical pair joins two
\* different items, so that every resolved vertical pair is a merge.
CrossPairsV == {p \in PairsV : p[1] # p[2]}

InitU ==
    /\ products = UnitPrices
    /\ horizontalPairs \in DistinctSeqsUpTo(PairsV, MaxHU)
    /\ verticalPairs \in SeqsUpTo(CrossPairsV, MaxVU)
    /\ InitRest

SpecU == InitU /\ [][Next]_vars

\* The render of a collection of up to MaxClustersH items of equal price,
\* each paired with itself, so that every item is a cluster of its own.
ItemH(k) == "p" \o String(k)
UnitPricesH == [id \in {ItemH(k) : k \in 1..MaxClustersH} |-> 1]

InitH ==
    /\ products = UnitPricesH
    /\ horizontalPairs \in {[k \in 1..n |-> <<ItemH(k), ItemH(k)>>] : n \in 0..MaxClustersH}
    /\ verticalPairs = <<>>
    /\ InitRest

SpecH == InitH /\ [][NextL]_vars

(***************************************************************************)
(* A UnionFind object used on its own: any sequence of union and find      *)
(* calls on the keys of KeysUF.                                            *)
(***************************************************************************)
KeysUF == IdsL

CallUnion(x, y) ==
    /\ ufCalls < MaxUfCalls
    /\ ufParent' = union(ufParent, x, y)
    /\ ufEdges' = ufEdges \cup {<<x, y>>}
    /\ ufCalls' = ufCalls + 1
    /\ UNCHANGED <<renderVars, uiVars>>

CallFind(x) ==
    /\ ufCalls < MaxUfCalls
    /\ ufParent' = find(ufParent, x).parent
    /\ ufCalls' = ufCalls + 1
    /\ UNCHANGED <<ufEdges, renderVars, uiVars>>

NextUF ==
    \/ \E x, y \in KeysUF : CallUnion(x, y)
    \/ \E x \in KeysUF : CallFind(x)

InitIdle ==
    /\ products = EmptyMap
    /\ horizontalPairs = <<>>
    /\ verticalPairs = <<>>
    /\ InitRest

SpecUF == InitIdle /\ [][NextUF]_vars

(***************************************************************************)
(* The pan and zoom handlers, run in any order.  The wheel turns by one of *)
(* DeltaYs, the pointer is at one of Pointers and the mouse button is one  *)
(* of Buttons.                                                             *)
(***************************************************************************)
DeltaYs == {0 - 4000, 0 - 100, 100, 1500}
Pointers == {<<0, 0>>, <<10, 5>>}
Buttons == {0, 2}

Handled(name) ==
    /\ uiEvents < MaxUiEvents
    /\ uiEvents' = uiEvents + 1
    /\ lastHandler' = name
    /\ UNCHANGED <<renderVars, ufVars>>

handleZoomIn ==
    /\ Handled("handleZoomIn")
    /\ zoomLevel' = zoomIn(zoomLevel)
    /\ UNCHANGED <<panOffset, isDragging, dragStart>>

handleZoomOut ==
    /\ Handled("handleZoomOut")
    /\ zoomLevel' = zoomOut(zoomLevel)
    /\ UNCHANGED <<panOffset, isDragging, dragStart>>

handleResetZoom ==
    /\ Handled("handleResetZoom")
    /\ zoomLevel' = Rat(1, 1)
    /\ panOffset' = <<0, 0>>
    /\ UNCHANGED <<isDragging, dragStart>>

handleWheel(deltaY) ==
    /\ Handled("handleWheel")
    /\ zoomLevel' = wheelZoom(zoomLevel, deltaY)
    /\ UNCHANGED <<panOffset, isDragging, dragStart>>

handleMouseDown(button, client) ==
    /\ Handled("handleMouseDown")
    /\ IF button = 0
       THEN /\ isDragging' = TRUE
            /\ dragStart' = <<client[1] - panOffset[1], client[2] - panOffset[2]>>
       ELSE UNCHANGED <<isDragging, dragStart>>
    /\ UNCHANGED <<zoomLevel, panOffset>>

handleMouseMove(client) ==
    /\ Handled("handleMouseMove")
    /\ panOffset' = IF isDragging
                    THEN <<client[1] - dragStart[1], client[2] - dragStart[2]>>
                    ELSE panOffset
    /\ UNCHANGED <<zoomLevel, isDragging, dragStart>>

handleMouseUp ==
    /\ Handled("handleMouseUp")
    /\ isDragging' = FALSE
    /\ UNCHANGED <<zoomLevel, panOffset, dragStart>>

handleMouseLeave ==
    /\ Handled("handleMouseLeave")
    /\ isDragging' = FALSE
    /\ UNCHANGED <<zoomLevel, panOffset, dragStart>>

NextUI ==
    \/ handleZoomIn
    \/ handleZoomOut
    \/ handleResetZoom
    \/ \E deltaY \in DeltaYs : handleWheel(deltaY)
    \/ \E button \in Buttons, client \in Pointers : handleMouseDown(button, client)
    \/ \E client \in Pointers : handleMouseMove(client)
    \/ handleMouseUp
    \/ handleMouseLeave

SpecUI == InitIdle /\ [][NextUI]_vars

(***************************************************************************)
(* Helpers of the properties.                                              *)
(***************************************************************************)
\* the nodes linked to a node of S by a chain of edges of E, in either direction
RECURSIVE Closure(_, _)
Closure(S, E) ==
    LET T == S \cup {e[2] : e \in {d \in E : d[1] \in S}}
               \cup {e[1] : e \in {d \in E : d[2] \in S}}
    IN  IF T = S THEN S ELSE Closure(T, E)

\* x occurs in exactly one list of the list of lists ll, at exactly one position
OccursOnce(ll, x) ==
    \E i \in 1..Len(ll) :
        /\ \E j \in 1..Len(ll[i]) :
              ll[i][j] = x /\ \A k \in 1..Len(ll[i]) : ll[i][k] = x => k = j
        /\ \A h \in 1..Len(ll) : h # i => \A k \in 1..Len(ll[h]) : ll[h][k] # x

\* x occurs in no list of ll
OccursNever(ll, x) == \A i \in 1..Len(ll) : \A j \in 1..Len(ll[i]) : ll[i][j] # x

PairIds(pairs) == Range(Endpoints(pairs))
Clustered == pc # "clustering"
Ranked == pc \in {"grouping", "connecting"}
Grouped == pc = "connecting"
SameList(ll, x, y) == \E i \in 1..Len(ll) : x \in Range(ll[i]) /\ y \in Range(ll[i])
MinOf(s) == CHOOSE m \in Range(s) : \A x \in Range(s) : m <= x

(***************************************************************************)
(* C1: every id that occurs in a horizontal pair is in exactly one cluster *)
(* of buildClusters and exactly once in it; an id that occurs in no        *)
(* horizontal pair is in no cluster.                                       *)
(***************************************************************************)
C1_ClustersPartitionPairIds ==
    Clustered =>
        /\ LET paired == PairIds(horizontalPairs)
           IN  \A id \in Ids :
                   IF id \in paired
                   THEN OccursOnce(horizontalClusters, id)
                   ELSE OccursNever(horizontalClusters, id)
        /\ \A i \in 1..Len(horizontalClusters) : Range(horizontalClusters[i]) \subseteq Ids

\* a pair is repeated, two clusters are built and one id is in no pair
C1_Witness ==
    /\ Clustered
    /\ Len(horizontalClusters) = 2
    /\ \E i, j \in 1..Len(horizontalPairs) : i # j /\ horizontalPairs[i] = horizontalPairs[j]
    /\ PairIds(horizontalPairs) # Ids

(***************************************************************************)
(* C2: two ids are in the same cluster of buildClusters exactly when a     *)
(* chain of horizontal pairs links them, whatever the order, orientation   *)
(* and repetition of the pairs.                                            *)
(***************************************************************************)
C2_ClustersAreComponents ==
    Clustered =>
        LET paired == PairIds(horizontalPairs)
        IN  \A x \in paired :
                LET linked == Closure({x}, Range(horizontalPairs))
                IN  \A y \in paired :
                        SameList(horizontalClusters, x, y) <=> y \in linked

\* a cluster of three ids built from two pairs that share their first id, next
\* to a state where the pairs are listed in the opposite orientation
C2_Witness ==
    /\ Clustered
    /\ Len(horizontalPairs) = 2
    /\ horizontalPairs[1][1] = horizontalPairs[2][1]
    /\ Len(horizontalClusters) = 1
    /\ Len(horizontalClusters[1]) = 3

(***************************************************************************)
(* C3: the computation raises no exception for any well-typed input, and   *)
(* an id that is not in the item collection joins no cluster.              *)
(***************************************************************************)
C3_NoExceptionUnknownIgnored ==
    /\ pc # "TypeError"
    /\ Clustered =>
          \A i \in 1..Len(horizontalClusters) :
              Range(horizontalClusters[i]) \subseteq DOMAIN products

(***************************************************************************)
(* C4: the first element of sortCluster's output has a price at least the  *)
(* price of every member, and it is the first member, in cluster order,    *)
(* with the maximum price.                                                 *)
(***************************************************************************)
C4_StartIsFirstMaximum ==
    Ranked =>
        \A i \in 1..Len(horizontalClusters) :
            LET cluster == horizontalClusters[i]
                first   == sorted[i][1]
            IN  /\ \A j \in 1..Len(cluster) : products[cluster[j]] <= products[first]
                /\ \E k \in 1..Len(cluster) :
                      /\ cluster[k] = first
                      /\ \A j \in 1..(k - 1) : products[cluster[j]] < products[first]

\* a cluster whose maximum price is attained by its second and third member
C4_Witness ==
    /\ Ranked
    /\ \E i \in 1..Len(horizontalClusters) :
          LET cluster == horizontalClusters[i]
          IN  /\ Len(cluster) = 3
              /\ products[cluster[1]] < products[cluster[2]]
              /\ products[cluster[2]] = products[cluster[3]]
              /\ sorted[i][1] = cluster[2]

(***************************************************************************)
(* C5: sortCluster's output is ordered by price, descending: the price at  *)
(* position i is at least the price at position i + 1.                     *)
(***************************************************************************)
C5_PriceDescending ==
    Ranked =>
        \A i \in 1..Len(sorted) :
            \A j \in 1..(Len(sorted[i]) - 1) :
                products[sorted[i][j]] >= products[sorted[i][j + 1]]

(***************************************************************************)
(* C6: the ranked cluster list is non-increasing by maximum member price,  *)
(* and clusters with equal maximum price keep the order in which           *)
(* buildClusters produced them.                                            *)
(***************************************************************************)
BuiltAt(cluster) == CHOOSE k \in 1..Len(sorted) : sorted[k] = cluster

C6_RankingStableNonIncreasing ==
    Ranked =>
        LET ranked == sortedHorizontalClusters
        IN  /\ Len(ranked) = Len(sorted)
            /\ \A i \in 1..Len(ranked) : \E k \in 1..Len(sorted) : sorted[k] = ranked[i]
            /\ \A i, j \in 1..Len(ranked) :
                  i < j =>
                      /\ MaxPriceOf(ranked[i], products) >= MaxPriceOf(ranked[j], products)
                      /\ MaxPriceOf(ranked[i], products) = MaxPriceOf(ranked[j], products)
                            => BuiltAt(ranked[i]) < BuiltAt(ranked[j])

\* three clusters: the ranking moves the last built one to the front and leaves
\* the two with equal maximum price in their order
C6_Witness ==
    /\ Ranked
    /\ Len(sorted) = 3
    /\ sortedHorizontalClusters = <<sorted[3], sorted[1], sorted[2]>>
    /\ MaxPriceOf(sorted[1], products) = MaxPriceOf(sorted[2], products)

(***************************************************************************)
(* C7: with no vertical pair, buildVerticalClusters returns one singleton  *)
(* super-cluster [i] per ranked cluster, in ascending index i.             *)
(***************************************************************************)
C7_NoVerticalPairsSingletons ==
    (Grouped /\ Len(verticalPairs) = 0) =>
        /\ Len(verticalClusters) = Len(sortedHorizontalClusters)
        /\ \A k \in 1..Len(verticalClusters) :
              Len(verticalClusters[k]) = 1 /\ verticalClusters[k][1] = k - 1

C7_Witness ==
    /\ Grouped
    /\ Len(verticalPairs) = 0
    /\ Len(sortedHorizontalClusters) = 3

(***************************************************************************)
(* C8: the super-clusters partition the ranked cluster indices: every      *)
(* index 0..n-1 is in exactly one super-cluster and exactly once in it,    *)
(* also after the chain-strength reordering.                               *)
(***************************************************************************)
C8_SuperClustersPartitionIndices ==
    Grouped =>
        LET n == Len(sortedHorizontalClusters)
        IN  /\ \A idx \in 0..(n - 1) : OccursOnce(verticalClusters, idx)
            /\ \A g \in 1..Len(verticalClusters) : Range(verticalClusters[g]) \subseteq 0..(n - 1)

\* a super-cluster of three clusters that the reordering has rearranged
C8_Witness ==
    /\ Grouped
    /\ \E g \in 1..Len(verticalClusters) :
          /\ Len(verticalClusters[g]) = 3
          /\ verticalClusters[g] # <<0, 1, 2>>

(***************************************************************************)
(* C9: two ranked clusters are in the same super-cluster exactly when a    *)
(* chain of vertical pairs with both endpoints in a cluster links them; a  *)
(* vertical pair with an endpoint in no cluster unites nothing and adds    *)
(* no weight.                                                              *)
(***************************************************************************)
InCluster(id) == \E i \in 1..Len(sortedHorizontalClusters) : id \in Range(sortedHorizontalClusters[i])
ClusterOf(id) == (CHOOSE i \in 1..Len(sortedHorizontalClusters) :
                     id \in Range(sortedHorizontalClusters[i])) - 1
Resolved(p) == InCluster(p[1]) /\ InCluster(p[2])
\* the vertical pairs with both endpoints in a cluster, as pairs of cluster indices
ClusterEdgeSeq ==
    LET resolved == SelectSeq(verticalPairs, Resolved)
    IN  [k \in 1..Len(resolved) |-> <<ClusterOf(resolved[k][1]), ClusterOf(resolved[k][2])>>]

C9_SuperClustersAreComponents ==
    (Grouped /\ Len(verticalPairs) > 0) =>
        LET n == Len(sortedHorizontalClusters)
            edges == ClusterEdgeSeq
            counts == analyzeClusterChains(EmptyMap, productToClusterIdx(sortedHorizontalClusters),
                                           verticalPairs, 1)
        IN  /\ \A i \in 0..(n - 1) :
                  LET linked == Closure({i}, Range(edges))
                  IN  \A j \in 0..(n - 1) :
                          SameList(verticalClusters, i, j) <=> j \in linked
            /\ \A i, j \in 0..(n - 1) :
                  i < j =>
                      CountOf(counts, pairKey(i, j)) =
                          Cardinality({k \in 1..Len(edges) : {edges[k][1], edges[k][2]} = {i, j}})
            /\ \A key \in DOMAIN counts :
                  \E k \in 1..Len(edges) :
                      edges[k][1] # edges[k][2] /\ key = pairKey(edges[k][1], edges[k][2])

\* one vertical pair unites two clusters, another has an endpoint in no cluster
C9_Witness ==
    /\ Grouped
    /\ Len(verticalClusters) < Len(sortedHorizontalClusters)
    /\ \E k \in 1..Len(verticalPairs) :
          InCluster(verticalPairs[k][1]) /\ ~InCluster(verticalPairs[k][2])

(***************************************************************************)
(* C10: the super-clusters are listed by the ascending index of their      *)
(* lowest-index member cluster, also when the chain-strength reordering    *)
(* is active.                                                              *)
(***************************************************************************)
C10_SortedByLowestMember ==
    Grouped =>
        \A g, h \in 1..Len(verticalClusters) :
            g < h => MinOf(verticalClusters[g]) < MinOf(verticalClusters[h])

\* the number of resolved vertical pairs joining clusters i and j
EdgeWeight(edges, i, j) ==
    Cardinality({k \in 1..Len(edges) : {edges[k][1], edges[k][2]} = {i, j}})

\* x, y, z are the three members of group and form the path x - y - z
IsPath(edges, group, x, y, z) ==
    /\ Len(group) = 3
    /\ {x, y, z} = Range(group) /\ x # y /\ y # z /\ x # z
    /\ EdgeWeight(edges, x, y) = 1
    /\ EdgeWeight(edges, y, z) = 1
    /\ EdgeWeight(edges, x, z) = 0

Connected == pc \in {"colouring", "aligning", "drawing", "drawn"}
Coloured == pc \in {"aligning", "drawing", "drawn"}
Aligned == pc \in {"drawing", "drawn"}
Drawn == pc = "drawn"

\* the vertical pairs that declare the link between a and b, in either orientation
Declaring(a, b) ==
    {k \in 1..Len(verticalPairs) : {verticalPairs[k][1], verticalPairs[k][2]} = {a, b}}
\* a and b lie in two clusters of different ranked indices
AcrossClusters(a, b) == InCluster(a) /\ InCluster(b) /\ ClusterOf(a) # ClusterOf(b)
\* the number of entries b in the list of a
EntryCount(a, b) ==
    LET list == ConnectedIds(verticalConnectionMap, a)
    IN  Cardinality({k \in 1..Len(list) : list[k] = b})

(***************************************************************************)
(* C13: the connection index holds b under a exactly when some vertical    *)
(* pair {a, b} has its endpoints in clusters of two different ranked       *)
(* indices; the index is symmetric and never links two items of one        *)
(* cluster.                                                                *)
(***************************************************************************)
C13_IndexIsCrossClusterLinks ==
    Connected =>
        /\ DOMAIN verticalConnectionMap \subseteq IdsL
        /\ \A a, b \in IdsL :
              /\ EntryCount(a, b) > 0 <=> (Declaring(a, b) # {} /\ AcrossClusters(a, b))
              /\ EntryCount(a, b) > 0 <=> EntryCount(b, a) > 0
              /\ EntryCount(a, b) > 0 =>
                    ~\E i \in 1..Len(sortedHorizontalClusters) :
                        {a, b} \subseteq Range(sortedHorizontalClusters[i])

\* one vertical pair is indexed, one is dropped for lying inside a cluster
\* and one for naming an item of no cluster
C13_Witness ==
    /\ Connected
    /\ \E a, b \in IdsL : EntryCount(a, b) > 0
    /\ \E k \in 1..Len(verticalPairs) :
          /\ Resolved(verticalPairs[k])
          /\ ClusterOf(verticalPairs[k][1]) = ClusterOf(verticalPairs[k][2])
    /\ \E k \in 1..Len(verticalPairs) : ~Resolved(verticalPairs[k])

ClusterAt(c) == sortedHorizontalClusters[c + 1]
\* the 0-based position of id in the cluster of index c
PositionIn(c, id) == (CHOOSE j \in 1..Len(ClusterAt(c)) : ClusterAt(c)[j] = id) - 1
\* the places of the link list of item a whose entry lies in the cluster of index c
EntriesInto(a, c) ==
    LET list == ConnectedIds(verticalConnectionMap, a)
    IN  {k \in 1..Len(list) : list[k] \in Range(ClusterAt(c))}
\* the 0-based positions in the cluster of index p of the items linked into c
LinkedPositions(p, c) ==
    {j \in 0..(Len(ClusterAt(p)) - 1) : EntriesInto(ClusterAt(p)[j + 1], c) # {}}
\* the least member of a non-empty set of integers
Least(S) == CHOOSE m \in S : \A x \in S : m <= x
\* the horizontal distance between two neighbouring cards of a cluster
CardStep == CARD_WIDTH + CARD_GAP + CONNECTOR_WIDTH

(***************************************************************************)
(* C15: the offset table has an entry for every ranked cluster index, and  *)
(* the first cluster of every super-cluster, in its final order, has       *)
(* offset 0.                                                               *)
(***************************************************************************)
C15_EveryClusterHasOffsetFirstZero ==
    Aligned =>
        /\ DOMAIN clusterOffsets = 0..(Len(sortedHorizontalClusters) - 1)
        /\ \A g \in 1..Len(verticalClusters) : clusterOffsets[verticalClusters[g][1]] = 0

\* two super-clusters, and a cluster that is shifted
C15_Witness ==
    /\ Aligned
    /\ Len(verticalClusters) >= 2
    /\ \E c \in DOMAIN clusterOffsets : clusterOffsets[c] # 0

(***************************************************************************)
(* C16: a cluster C at a position after the first of a super-cluster,      *)
(* whose predecessor P has an item linked into C, has the offset           *)
(* offset(P) + sourceIdx * step - targetIdx * step, where step is          *)
(* width + gap + connector, sourceIdx is the lowest position in P of an    *)
(* item linked into C, and targetIdx is the position in C of the first     *)
(* entry of that item's link list that lies in C.                          *)
(***************************************************************************)
C16_AnchoredOffset ==
    Aligned =>
        \A g \in 1..Len(verticalClusters) :
            \A i \in 2..Len(verticalClusters[g]) :
                LET P == verticalClusters[g][i - 1]
                    C == verticalClusters[g][i]
                    linked == LinkedPositions(P, C)
                IN  linked # {} =>
                        LET sourceIdx == Least(linked)
                            source == ClusterAt(P)[sourceIdx + 1]
                            first == Least(EntriesInto(source, C))
                            targetIdx == PositionIn(C, ConnectedIds(verticalConnectionMap, source)[first])
                        IN  clusterOffsets[C] =
                                clusterOffsets[P] + sourceIdx * CardStep - targetIdx * CardStep

\* an anchored cluster whose predecessor is itself shifted
C16_Witness ==
    /\ Aligned
    /\ \E g \in 1..Len(verticalClusters) :
          \E i \in 2..Len(verticalClusters[g]) :
              /\ LinkedPositions(verticalClusters[g][i - 1], verticalClusters[g][i]) # {}
              /\ clusterOffsets[verticalClusters[g][i - 1]] # 0

(***************************************************************************)
(* C17: a cluster C at a position after the first of a super-cluster,      *)
(* whose predecessor P has no item linked into C, takes the offset of P.   *)
(***************************************************************************)
C17_NoAnchorKeepsOffset ==
    Aligned =>
        \A g \in 1..Len(verticalClusters) :
            \A i \in 2..Len(verticalClusters[g]) :
                LET P == verticalClusters[g][i - 1]
                    C == verticalClusters[g][i]
                IN  LinkedPositions(P, C) = {} => clusterOffsets[C] = clusterOffsets[P]

\* a cluster without an anchor follows a predecessor that is shifted
C17_Witness ==
    /\ Aligned
    /\ \E g \in 1..Len(verticalClusters) :
          \E i \in 2..Len(verticalClusters[g]) :
              /\ LinkedPositions(verticalClusters[g][i - 1], verticalClusters[g][i]) = {}
              /\ clusterOffsets[verticalClusters[g][i - 1]] # 0
              /\ clusterOffsets[verticalClusters[g][i]] # 0

\* the 0-based position of the cluster of index c in its super-cluster
PositionInGroup(c) ==
    LET group == verticalClusters[CHOOSE g \in 1..Len(verticalClusters) :
                                      c \in Range(verticalClusters[g])]
    IN  (CHOOSE k \in 1..Len(group) : group[k] = c) - 1
\* the connector at place k of the list of cluster c runs from item a to item b
Joins(c, k, a, b) ==
    /\ c = ClusterOf(b)
    /\ connectors[c][k].sourceClusterIdx = ClusterOf(a)
    /\ connectors[c][k].fromIdx = PositionIn(ClusterOf(a), a)
    /\ connectors[c][k].toIdx = PositionIn(c, b)
\* the connectors drawn for the link between a and b, as <<cluster, place>>
ConnectorsOf(a, b) ==
    {ck \in UNION {{c} \X (1..Len(connectors[c])) : c \in DOMAIN connectors} :
        Joins(ck[1], ck[2], a, b) \/ Joins(ck[1], ck[2], b, a)}

(***************************************************************************)
(* C18: the connector list of a cluster holds no two connectors with the   *)
(* same earlier cluster, earlier position and current position, however    *)
(* many vertical pairs declare the link.                                   *)
(***************************************************************************)
C18_ConnectorsDeduplicated ==
    Drawn =>
        \A c \in DOMAIN connectors :
            \A i, j \in 1..Len(connectors[c]) :
                i < j =>
                    ~ /\ connectors[c][i].sourceClusterIdx = connectors[c][j].sourceClusterIdx
                      /\ connectors[c][i].fromIdx = connectors[c][j].fromIdx
                      /\ connectors[c][i].toIdx = connectors[c][j].toIdx

\* a link that the index holds twice has been drawn
C18_Witness ==
    /\ Drawn
    /\ \E a, b \in IdsL : EntryCount(a, b) >= 2 /\ ConnectorsOf(a, b) # {}

(***************************************************************************)
(* C19: every pair of items linked in the connection index produces        *)
(* exactly one connector; it is in the list of whichever of the two        *)
(* clusters stands later in the super-cluster order and its source is the  *)
(* earlier one, also when the two clusters are not adjacent in that order. *)
(***************************************************************************)
C19_OneConnectorPerLink ==
    Drawn =>
        \A a, b \in IdsL :
            (EntryCount(a, b) > 0
                /\ PositionInGroup(ClusterOf(a)) < PositionInGroup(ClusterOf(b))) =>
                /\ Cardinality(ConnectorsOf(a, b)) = 1
                /\ \A ck \in ConnectorsOf(a, b) : Joins(ck[1], ck[2], a, b)

\* two linked items lie in clusters that are not adjacent in the order
C19_Witness ==
    /\ Drawn
    /\ \E a, b \in IdsL :
          /\ EntryCount(a, b) > 0
          /\ PositionInGroup(ClusterOf(b)) - PositionInGroup(ClusterOf(a)) >= 2
          /\ ConnectorsOf(a, b) # {}

(***************************************************************************)
(* C20 as stated: the span of a connector is the number of clusters lying  *)
(* strictly between its source cluster and its target cluster in the       *)
(* super-cluster order.                                                    *)
(***************************************************************************)
C20_SpanCountsClustersBetween ==
    Drawn =>
        \A c \in DOMAIN connectors :
            \A k \in 1..Len(connectors[c]) :
                connectors[c][k].clusterSpan =
                    PositionInGroup(c) - PositionInGroup(connectors[c][k].sourceClusterIdx) - 1

(***************************************************************************)
(* C20 amended: the span of a connector is the difference of the positions *)
(* of its target cluster and its source cluster in the super-cluster       *)
(* order, one more than the number of clusters strictly between them; a    *)
(* connector between adjacent clusters has span 1.                         *)
(***************************************************************************)
C20_SpanIsPositionDifference ==
    Drawn =>
        \A c \in DOMAIN connectors :
            \A k \in 1..Len(connectors[c]) :
                connectors[c][k].clusterSpan =
                    PositionInGroup(c) - PositionInGroup(connectors[c][k].sourceClusterIdx)

\* connectors between adjacent clusters and across a cluster have been drawn
C20_Witness ==
    /\ Drawn
    /\ \E c \in DOMAIN connectors :
          \E j, k \in 1..Len(connectors[c]) :
              connectors[c][j].clusterSpan = 1 /\ connectors[c][k].clusterSpan = 2

(***************************************************************************)
(* C21: any two different ranked cluster indices have different hues.      *)
(***************************************************************************)
C21_HuesUnique ==
    Coloured =>
        \A i, j \in 1..Len(renderStructure) :
            i # j => renderStructure[i].colorSeed # renderStructure[j].colorSeed

\* s and t hold the same elements, each exactly once
IsPermutation(s, t) ==
    /\ Len(s) = Len(t)
    /\ Range(s) = Range(t)
    /\ \A i, j \in 1..Len(s) : i < j => s[i] # s[j]

(***************************************************************************)
(* C22: for every cluster produced by buildClusters the output of          *)
(* sortCluster is a permutation of the members of the cluster: the         *)
(* breadth-first traversal reaches every member and lists it once.         *)
(***************************************************************************)
C22_SortClusterPermutes ==
    Ranked =>
        /\ Len(sorted) = Len(horizontalClusters)
        /\ \A i \in 1..Len(sorted) : IsPermutation(sorted[i], horizontalClusters[i])

\* a cluster of three members has been put into another order
C22_Witness ==
    /\ Ranked
    /\ \E i \in 1..Len(sorted) :
          Len(horizontalClusters[i]) = 3 /\ sorted[i] # horizontalClusters[i]

\* the moment id is first met in a scan of the horizontal pairs in input
\* order, the left endpoint of a pair before the right one
FirstSeen(id) ==
    LET moments == {2 * k - 1 : k \in {m \in 1..Len(horizontalPairs) : horizontalPairs[m][1] = id}}
                       \cup {2 * k : k \in {m \in 1..Len(horizontalPairs) : horizontalPairs[m][2] = id}}
    IN  CHOOSE m \in moments : \A x \in moments : m <= x

(***************************************************************************)
(* C23: buildClusters lists the clusters in the order in which their first *)
(* member is met when the horizontal pairs are scanned in input order,     *)
(* left endpoint before right endpoint, and lists the members of a cluster *)
(* in that same first-seen order.                                          *)
(***************************************************************************)
C23_ClustersInFirstSeenOrder ==
    Clustered =>
        /\ \A i \in 1..Len(horizontalClusters) :
              \A j, k \in 1..Len(horizontalClusters[i]) :
                  j < k => FirstSeen(horizontalClusters[i][j]) < FirstSeen(horizontalClusters[i][k])
        /\ \A i, j \in 1..Len(horizontalClusters) :
              i < j => FirstSeen(horizontalClusters[i][1]) < FirstSeen(horizontalClusters[j][1])

\* two clusters whose members are met interleaved: the second cluster starts
\* before the first one is complete
C23_Witness ==
    /\ Clustered
    /\ Len(horizontalClusters) = 2
    /\ Len(horizontalClusters[1]) = 2
    /\ FirstSeen(horizontalClusters[2][1]) < FirstSeen(horizontalClusters[1][2])

\* the number of resolved vertical pairs that join cluster c to another cluster
TotalWeight(edges, c) ==
    Cardinality({k \in 1..Len(edges) : c \in {edges[k][1], edges[k][2]}
                                          /\ edges[k][1] # edges[k][2]})
\* the id of the first item of the ranked cluster of index c
FirstId(c) == sortedHorizontalClusters[c + 1][1]

(***************************************************************************)
(* C24: in every super-cluster of more than one cluster the first cluster  *)
(* of the ordering has the greatest total weight to the other members, and *)
(* among the clusters of that total weight its first item id is the        *)
(* smallest.                                                               *)
(***************************************************************************)
C24_StartHasMaximalWeight ==
    Grouped =>
        LET edges == ClusterEdgeSeq
        IN  \A g \in 1..Len(verticalClusters) :
                Len(verticalClusters[g]) > 1 =>
                    LET start == verticalClusters[g][1]
                    IN  \A c \in Range(verticalClusters[g]) :
                            \/ TotalWeight(edges, c) < TotalWeight(edges, start)
                            \/ /\ TotalWeight(edges, c) = TotalWeight(edges, start)
                               /\ IdRank[FirstId(start)] <= IdRank[FirstId(c)]

\* two clusters of equal total weight, and the one of the higher index starts
C24_Witness ==
    /\ Grouped
    /\ \E g \in 1..Len(verticalClusters) :
          /\ Len(verticalClusters[g]) > 1
          /\ \E c \in Range(verticalClusters[g]) :
                /\ c < verticalClusters[g][1]
                /\ TotalWeight(ClusterEdgeSeq, c) = TotalWeight(ClusterEdgeSeq, verticalClusters[g][1])

\* the super-clusters have been ordered
Ordered == pc \in {"connecting", "colouring", "aligning", "drawing", "drawn"}
\* the greatest weight between cluster u and a cluster placed before position k of group
WeightToPlaced(edges, group, k, u) ==
    LET weights == {EdgeWeight(edges, group[p], u) : p \in 1..(k - 1)}
    IN  CHOOSE w \in weights : \A x \in weights : x <= w

(***************************************************************************)
(* C25: at every growth step of the ordering the cluster appended is an    *)
(* unplaced cluster whose weight to an already placed cluster is the       *)
(* highest among the unplaced clusters, and among the unplaced clusters of *)
(* that weight its first item id is the smallest.                          *)
(***************************************************************************)
C25_GrowthPicksStrongest ==
    Ordered =>
        LET edges == ClusterEdgeSeq
        IN  \A g \in 1..Len(verticalClusters) :
                LET group == verticalClusters[g]
                IN  \A k \in 2..Len(group) :
                        LET best == WeightToPlaced(edges, group, k, group[k])
                        IN  /\ best > 0
                            /\ \A m \in (k + 1)..Len(group) :
                                  LET other == WeightToPlaced(edges, group, k, group[m])
                                  IN  \/ other < best
                                      \/ /\ other = best
                                         /\ IdRank[FirstId(group[k])] < IdRank[FirstId(group[m])]

\* a step with two candidates where the heavier one is appended although
\* the first item id of the other is smaller
C25_Witness ==
    /\ Ordered
    /\ \E g \in 1..Len(verticalClusters) :
          LET group == verticalClusters[g]
          IN  /\ Len(group) = 3
              /\ WeightToPlaced(ClusterEdgeSeq, group, 2, group[3]) > 0
              /\ WeightToPlaced(ClusterEdgeSeq, group, 2, group[2])
                     > WeightToPlaced(ClusterEdgeSeq, group, 2, group[3])
              /\ IdRank[FirstId(group[3])] < IdRank[FirstId(group[2])]

\* the cluster the growth loop picks once the first k - 1 clusters of group
\* are placed, -1 when it finds none and falls back
PickedAfter(group, k) ==
    LET clusters == sortedHorizontalClusters
        counts == analyzeClusterChains(EmptyMap, productToClusterIdx(clusters), verticalPairs, 1)
        gc == PopulateConnections([c \in Range(group) |-> <<>>], group, counts, 1)
        placed == SubSeq(group, 1, k - 1)
    IN  PickNext([nextCluster |-> -1, maxWeight |-> 0],
                 VisitedConnections(placed, gc, 1), Range(placed), clusters, 1)

(***************************************************************************)
(* C26: the fallback of the ordering is never reached: while a             *)
(* super-cluster has unplaced clusters, an unplaced cluster has nonzero    *)
(* weight to an already placed one, and the growth loop finds a candidate. *)
(***************************************************************************)
C26_FallbackNeverReached ==
    Ordered =>
        LET edges == ClusterEdgeSeq
        IN  \A g \in 1..Len(verticalClusters) :
                LET group == verticalClusters[g]
                IN  \A k \in 2..Len(group) :
                        /\ \E m \in k..Len(group) :
                              \E p \in 1..(k - 1) : EdgeWeight(edges, group[p], group[m]) > 0
                        /\ PickedAfter(group, k) # -1

\* the last cluster of a super-cluster of three is linked to the first
\* cluster only, not to the cluster placed just before it
C26_Witness ==
    /\ Ordered
    /\ \E g \in 1..Len(verticalClusters) :
          LET group == verticalClusters[g]
          IN  /\ Len(group) = 3
              /\ EdgeWeight(ClusterEdgeSeq, group[2], group[3]) = 0
              /\ EdgeWeight(ClusterEdgeSeq, group[1], group[3]) > 0

(***************************************************************************)
(* The pipeline over a union-find with another merge rule.  Whatever the   *)
(* rule (by rank, by size), each merge hangs one of the two roots under    *)
(* the other; flips[i] tells whether the merge of pair i hangs the root of *)
(* y under the root of x, the reverse of what the code does.               *)
(***************************************************************************)
unionPick(flip, parent, x, y) ==
    LET fx == find(parent, x)
        fy == find(fx.parent, y)
    IN  IF fx.root # fy.root
        THEN IF flip
             THEN [fy.parent EXCEPT ![fy.root] = fx.root]
             ELSE [fy.parent EXCEPT ![fx.root] = fy.root]
        ELSE fy.parent

RECURSIVE UnionAllPick(_, _, _, _)
UnionAllPick(flips, parent, pairs, i) ==
    IF i > Len(pairs) THEN parent
    ELSE UnionAllPick(flips, unionPick(flips[i], parent, pairs[i][1], pairs[i][2]),
                      pairs, i + 1)

buildClustersPick(flips, pairs) ==
    LET uf == UnionAllPick(flips, EmptyMap, pairs, 1)
        st == GroupByRoot([parent |-> uf, processedIds |-> {}, clusterMap |-> <<>>],
                          Endpoints(pairs), 1)
    IN  MapValues(st.clusterMap)

RECURSIVE UnionVerticalPick(_, _, _, _, _)
UnionVerticalPick(flips, parent, p2c, pairs, i) ==
    IF i > Len(pairs) THEN parent
    ELSE LET productA == pairs[i][1]
             productB == pairs[i][2]
         IN  IF productA \in DOMAIN p2c /\ productB \in DOMAIN p2c
             THEN UnionVerticalPick(
                      flips,
                      unionPick(flips[i], parent, String(p2c[productA]), String(p2c[productB])),
                      p2c, pairs, i + 1)
             ELSE UnionVerticalPick(flips, parent, p2c, pairs, i + 1)

\* the buckets of cluster indices under the merge rule, before the ordering
VerticalGroupsPick(flips, clusters, pairs) ==
    MapValues(GroupIndices(UnionVerticalPick(flips, EmptyMap, productToClusterIdx(clusters),
                                             pairs, 1),
                           <<>>, Len(clusters), 0))

\* the rest of buildVerticalClusters applied to those buckets
buildVerticalClustersFrom(groups, clusters, pairs) ==
    IF Len(pairs) = 0
    THEN SingletonGroups(clusters)
    ELSE LET connectionCounts == analyzeClusterChains(EmptyMap, productToClusterIdx(clusters),
                                                      pairs, 1)
             orderedGroups == [g \in 1..Len(groups) |->
                                  OrderGroup(groups[g], connectionCounts, clusters)]
         IN  StableSort(orderedGroups, [g \in 1..Len(orderedGroups) |-> orderedGroups[g][1]])

(***************************************************************************)
(* C27: with a merge rule that picks the other representative, at any of   *)
(* the merges, buildClusters returns the same clusters in the same order   *)
(* with the same member order, and buildVerticalClusters returns the same  *)
(* super-clusters.                                                         *)
(***************************************************************************)
C27_MergeRuleIrrelevant ==
    /\ pc = "grouping" =>
          \A clusters \in {buildClustersPick(flips, horizontalPairs) :
                               flips \in [1..Len(horizontalPairs) -> BOOLEAN]} :
              horizontalClusters = clusters
    /\ Grouped =>
          \A groups \in {VerticalGroupsPick(flips, sortedHorizontalClusters, verticalPairs) :
                             flips \in [1..Len(verticalPairs) -> BOOLEAN]} :
              verticalClusters =
                  buildVerticalClustersFrom(groups, sortedHorizontalClusters, verticalPairs)

\* a merge rule leaves other representatives than the code, for the items
\* and for the cluster indices
C27_Witness ==
    /\ Grouped
    /\ \E flips \in [1..Len(horizontalPairs) -> BOOLEAN] :
          \E id \in Ids :
              find(UnionAll(EmptyMap, horizontalPairs, 1), id).root
                  # find(UnionAllPick(flips, EmptyMap, horizontalPairs, 1), id).root
    /\ LET p2c == productToClusterIdx(sortedHorizontalClusters)
       IN  \E flips \in [1..Len(verticalPairs) -> BOOLEAN] :
               \E c \in 0..(Len(sortedHorizontalClusters) - 1) :
                   find(UnionVertical(EmptyMap, p2c, verticalPairs, 1), String(c)).root
                       # find(UnionVerticalPick(flips, EmptyMap, p2c, verticalPairs, 1),
                              String(c)).root

(***************************************************************************)
(* C28: after any sequence of union and find calls, find(a) = find(b)      *)
(* exactly when a and b are joined by a chain of the union calls made so   *)
(* far, or a = b; a find call changes no set.                              *)
(***************************************************************************)
C28_FindTellsConnectivity ==
    \A a, b \in KeysUF :
        find(ufParent, a).root = find(ufParent, b).root <=> b \in Closure({a}, ufEdges)

\* find has compressed a path: a was joined to b and b to a third key, and
\* a and b now both point at a root that is neither of them
C28_Witness ==
    /\ ufCalls > Cardinality(ufEdges)
    /\ \E a, b, c \in KeysUF :
          /\ a # b /\ b # c /\ a # c
          /\ {<<a, b>>, <<b, c>>} \subseteq ufEdges \/ {<<a, b>>, <<c, a>>} \subseteq ufEdges
          /\ {a, b} \subseteq DOMAIN ufParent
          /\ ufParent[a] = ufParent[b]
          /\ ufParent[b] # b
          /\ ufParent[a] # b

(***************************************************************************)
(* C29: for every adjacent pair (P, C) of a super-cluster that has an      *)
(* anchor, the anchor's source card in P and target card in C are drawn at *)
(* the same x, negative offsets included.                                  *)
(***************************************************************************)
C29_AnchorCardsAligned ==
    Drawn =>
        \A g \in 1..Len(verticalClusters) :
            \A i \in 2..Len(verticalClusters[g]) :
                LET P == verticalClusters[g][i - 1]
                    C == verticalClusters[g][i]
                    linked == LinkedPositions(P, C)
                IN  linked # {} =>
                        LET sourceIdx == Least(linked)
                            source == ClusterAt(P)[sourceIdx + 1]
                            first == Least(EntriesInto(source, C))
                            targetIdx == PositionIn(C, ConnectedIds(verticalConnectionMap, source)[first])
                        IN  cards[P][sourceIdx + 1] = cards[C][targetIdx + 1]

(***************************************************************************)
(* C30: after any sequence of handleZoomIn, handleZoomOut, handleWheel and *)
(* handleResetZoom from zoom level 1 the zoom level stays within           *)
(* [MIN_ZOOM, MAX_ZOOM] = [0.1, 5], and handleResetZoom restores zoom      *)
(* level 1 and pan offset (0, 0).                                          *)
(***************************************************************************)
C30_ZoomWithinBounds ==
    /\ MIN_ZOOM = Rat(1, 10) /\ MAX_ZOOM = Rat(5, 1)
    /\ RatLeq(MIN_ZOOM, zoomLevel) /\ RatLeq(zoomLevel, MAX_ZOOM)
    /\ lastHandler = "handleResetZoom" => (zoomLevel = Rat(1, 1) /\ panOffset = <<0, 0>>)

\* the button went down while the view was panned away from (0, 0), and
\* handleResetZoom then ran during that drag
C30_Witness ==
    /\ lastHandler = "handleResetZoom"
    /\ isDragging
    /\ dragStart = <<0 - 10, 0 - 5>>
    /\ panOffset = <<0, 0>>

====
